---- MODULE Spec2Model ----
(***************************************************************************)
(* Model of builder.py: a configuration driven build/test runner.          *)
(* Strings are sequences of one-character strings; a dict is a sequence of *)
(* <<key, value>> pairs in insertion order (Python dicts are ordered).     *)
(***************************************************************************)
EXTENDS Integers, Sequences, FiniteSets, TLC

VARIABLES pc, config, args, cwd, user_variables, variables, environment,
          idx, path, exitcode, msg, executed, examined, baseVars, pathVars,
          rpc, rTemplate, rComputed, rUser, rResult

vars == <<pc, config, args, cwd, user_variables, variables, environment,
          idx, path, exitcode, msg, executed, examined, baseVars, pathVars,
          rpc, rTemplate, rComputed, rUser, rResult>>

mainVars == <<pc, config, args, cwd, user_variables, variables, environment,
              idx, path, exitcode, msg, executed, examined, baseVars, pathVars>>

resolveVars == <<rpc, rTemplate, rComputed, rUser, rResult>>

(*************************** bounds ****************************************)
MaxProjects == 2
MaxTplLen == 3
MaxVars == 2

(*************************** strings and dicts *****************************)
Range(s) == {s[i] : i \in 1..Len(s)}

SeqsUpTo(S, n) == UNION {[1..k -> S] : k \in 0..n}

StartsWith(s, i, p) ==
    /\ i + Len(p) - 1 <= Len(s)
    /\ SubSeq(s, i, i + Len(p) - 1) = p

RECURSIVE StrReplaceFrom(_, _, _, _)
StrReplaceFrom(s, i, old, new) ==
    IF i > Len(s) THEN <<>>
    ELSE IF StartsWith(s, i, old)
         THEN new \o StrReplaceFrom(s, i + Len(old), old, new)
         ELSE <<s[i]>> \o StrReplaceFrom(s, i + 1, old, new)

\* str.replace(old, new) for a non-empty old: leftmost non-overlapping
\* occurrences, the inserted text is not scanned again
StrReplace(s, old, new) == StrReplaceFrom(s, 1, old, new)

Placeholder(v) == <<"{">> \o v \o <<"}">>

DictKeys(d) == {d[i][1] : i \in 1..Len(d)}

DictIndex(d, k) == CHOOSE i \in 1..Len(d) : d[i][1] = k

DictGet(d, k) == d[DictIndex(d, k)][2]

\* d[k] = v: an existing key keeps its position, a new key goes last
DictSet(d, k, v) ==
    IF k \in DictKeys(d)
    THEN [d EXCEPT ![DictIndex(d, k)] = <<k, v>>]
    ELSE Append(d, <<k, v>>)

RECURSIVE ReplaceEach(_, _, _)
ReplaceEach(value, d, i) ==
    IF i > Len(d) THEN value
    ELSE ReplaceEach(StrReplace(value, Placeholder(d[i][1]), d[i][2]), d, i + 1)

RECURSIVE ReplaceEachReversed(_, _, _)
ReplaceEachReversed(value, d, i) ==
    IF i < 1 THEN value
    ELSE ReplaceEachReversed(StrReplace(value, Placeholder(d[i][1]), d[i][2]), d, i - 1)

\* variant: the computed variables are applied last declared first
replace_with_variables_reversed(value, vs, user) ==
    ReplaceEachReversed(ReplaceEach(value, user, 1), vs, Len(vs))

\* variant: the computed variables are applied before the user variables
replace_with_variables_computed_first(value, vs, user) ==
    ReplaceEach(ReplaceEach(value, vs, 1), user, 1)

replace_with_variables(value, vs, user) ==
    ReplaceEach(ReplaceEach(value, user, 1), vs, 1)

(*************************** configuration nodes **************************)
\* a YAML mapping node: keys is the set of keys present, a field whose key
\* is absent is never read
Node(keys, pathTpl, variablesDecl, environmentDecl, buildSteps, testSteps) ==
    [keys |-> keys, path |-> pathTpl, variables |-> variablesDecl,
     environment |-> environmentDecl, build |-> buildSteps, test |-> testSteps]

\* variant: reports every exit code as success
execute_failed_never(retcode) == FALSE

\* execute_command: the run fails when the exit code is non-zero
execute_failed(retcode) == retcode # 0

\* variant: prints the message and returns normally with status 0
error_returns(text) == [pc |-> "done", exitcode |-> 0, msg |-> text]

\* error(): message to stderr, exit(1)
error(text) == [pc |-> "error", exitcode |-> 1, msg |-> text]

BannerMax == 110

RECURSIVE Hashes(_)
Hashes(n) == IF n = 0 THEN <<>> ELSE <<"#">> \o Hashes(n - 1)

banner(text) ==
    LET t == IF Len(text) > BannerMax THEN SubSeq(text, 1, BannerMax) ELSE text
        sep == <<"#", "#", "#", "#", "#", "#", "#", "#">> \o Hashes(Len(t))
    IN <<"e", "c", "h", "o", " ", "-", "e", " ", "'", "\\", "n">> \o sep
       \o <<"\\", "n", "#", "#", "#", " ">> \o t
       \o <<" ", "#", "#", "#", "\\", "n">> \o sep \o <<"\\", "n", "'">>

RECURSIVE ExtractEach(_, _, _, _)
ExtractEach(decl, i, acc, user) ==
    IF i > Len(decl) THEN acc
    ELSE ExtractEach(decl, i + 1,
                     DictSet(acc, decl[i][1],
                             replace_with_variables(decl[i][2], acc, user)),
                     user)

\* the returned dict is the dict passed in, updated in place
extract_variables(root, vs, user) ==
    IF "variables" \in root.keys THEN ExtractEach(root.variables, 1, vs, user)
    ELSE vs

RECURSIVE ExtractEnvEach(_, _, _, _, _)
ExtractEnvEach(decl, i, env, vs, user) ==
    IF i > Len(decl) THEN env
    ELSE ExtractEnvEach(decl, i + 1,
                        DictSet(env, decl[i][1],
                                replace_with_variables(decl[i][2], vs, user)),
                        vs, user)

extract_environment(root, env, vs, user) ==
    IF "environment" \in root.keys
    THEN ExtractEnvEach(root.environment, 1, env, vs, user)
    ELSE env

(*************************** path matching *********************************)
Home == <<"/", "x">>

\* os.path.expanduser: a leading "~" alone or before "/" becomes $HOME
expanduser(p) ==
    IF Len(p) >= 1 /\ p[1] = "~" /\ (Len(p) = 1 \/ p[2] = "/")
    THEN Home \o SubSeq(p, 2, Len(p))
    ELSE p

\* re.compile raises re.error: nothing to repeat, multiple repeat
RegexValid(p) ==
    \A i \in 1..Len(p) : p[i] = "*" => (i > 1 /\ p[i - 1] # "*")

AtomMatches(a, c) == a = "." \/ a = c

RECURSIVE MaxRun(_, _, _)
MaxRun(a, s, j) ==
    IF j <= Len(s) /\ AtomMatches(a, s[j]) THEN 1 + MaxRun(a, s, j + 1) ELSE 0

RECURSIVE MatchHere(_, _, _, _)
RECURSIVE StarTry(_, _, _, _, _)
\* length of the match of p[i..] against s[j..], -1 when there is none
\* (backtracking, the star is greedy)
MatchHere(p, i, s, j) ==
    IF i > Len(p) THEN j - 1
    ELSE IF i + 1 <= Len(p) /\ p[i + 1] = "*"
         THEN StarTry(p, i, s, j, MaxRun(p[i], s, j))
         ELSE IF j <= Len(s) /\ AtomMatches(p[i], s[j])
              THEN MatchHere(p, i + 1, s, j + 1)
              ELSE -1

StarTry(p, i, s, j, k) ==
    IF k < 0 THEN -1
    ELSE LET r == MatchHere(p, i + 2, s, j + k)
         IN IF r >= 0 THEN r ELSE StarTry(p, i, s, j, k - 1)

\* regex.match(os.getcwd()): anchored at the start of the string
RegexMatch(p, s) == MatchHere(p, 1, s, 1)

\* kind: "nopath" (error), "regexerror" (re.error), "nomatch" (None),
\* "match" (match.group(), possibly the empty string)
get_path(root, vs, user, dir) ==
    IF "path" \notin root.keys THEN [kind |-> "nopath", group |-> <<>>]
    ELSE LET p == expanduser(replace_with_variables(root.path, vs, user))
         IN IF ~RegexValid(p) THEN [kind |-> "regexerror", group |-> <<>>]
            ELSE IF RegexMatch(p, dir) < 0 THEN [kind |-> "nomatch", group |-> <<>>]
            ELSE [kind |-> "match", group |-> SubSeq(dir, 1, RegexMatch(p, dir))]

(*************************** pipeline and shell ***************************)
RECURSIVE PhaseCmd(_, _, _, _)
\* the list cmd of build() and test() after the first i steps
PhaseCmd(steps, i, vs, user) ==
    IF i = 0 THEN <<>>
    ELSE LET before == PhaseCmd(steps, i - 1, vs, user)
             step == replace_with_variables(steps[i], vs, user)
         IN (IF Len(before) > 0 THEN Append(before, <<"&", "&">>) ELSE before)
            \o <<banner(step), <<"&", "&">>, step>>

RECURSIVE Join(_)
\* ' '.join(cmd)
Join(cmd) ==
    IF cmd = <<>> THEN <<>>
    ELSE IF Len(cmd) = 1 THEN cmd[1]
    ELSE cmd[1] \o <<" ">> \o Join(Tail(cmd))

\* position i of s lies inside single quotes, or is a quote character
Quoted(s, i) ==
    \/ s[i] = "'"
    \/ Cardinality({j \in 1..(i - 1) : s[j] = "'"}) % 2 = 1

\* the control operator starting at position i of s, "" when there is none
OperatorAt(s, i) ==
    IF s[i] \notin {"&", "|", ";"} THEN ""
    ELSE IF Quoted(s, i) THEN ""
    ELSE IF StartsWith(s, i, <<"&", "&">>) THEN "&&"
    ELSE IF StartsWith(s, i, <<"|", "|">>) THEN "||"
    ELSE IF s[i] = ";" THEN ";"
    ELSE ""

OperatorChars(op) == IF op = ";" THEN <<";">> ELSE IF op = "&&" THEN <<"&", "&">> ELSE <<"|", "|">>

Min(S) == CHOOSE x \in S : \A y \in S : x <= y

RECURSIVE ShellScan(_, _, _)
\* sh -c: the simple commands of s from position i on, each with the
\* operator that precedes it ("first", "&&", "||", ";") and the position of
\* its first character (0: the command is empty); text in single quotes is
\* literal
ShellScan(s, i, op) ==
    IF \A j \in i..Len(s) : OperatorAt(s, j) = ""
    THEN << [op |-> op,
             start |-> IF \A j \in i..Len(s) : s[j] = " " THEN 0
                       ELSE Min({j \in i..Len(s) : s[j] # " "})] >>
    ELSE \* bound once: the position of the next operator and the operator
         LET stop == Min({j \in i..Len(s) : OperatorAt(s, j) # ""})
         IN LET next == OperatorAt(s, stop)
            IN << [op |-> op,
                   start |-> IF \A j \in i..(stop - 1) : s[j] = " " THEN 0
                             ELSE Min({j \in i..(stop - 1) : s[j] # " "})] >>
               \o ShellScan(s, stop + Len(OperatorChars(next)), next)

ShellParse(line) == ShellScan(line, 1, "first")

Blank(line) == \A i \in 1..Len(line) : line[i] = " "

\* an empty command next to an operator, or an unterminated quote
ShellSyntaxError(line, cmds) ==
    /\ ~Blank(line)
    /\ \/ \E i \in 1..Len(cmds) :
             /\ cmds[i].start = 0
             /\ ~(i = Len(cmds) /\ cmds[i].op = ";")
       \/ Cardinality({i \in 1..Len(line) : line[i] = "'"}) % 2 = 1

RECURSIVE ShellEval(_, _, _, _, _)
\* runs the commands left to right; o[i] is the exit status command i
\* would return if started
ShellEval(cmds, o, i, last, started) ==
    IF i > Len(cmds) THEN [started |-> started, rc |-> last]
    ELSE IF /\ cmds[i].start # 0
            /\ \/ cmds[i].op \in {"first", ";"}
               \/ cmds[i].op = "&&" /\ last = 0
               \/ cmds[i].op = "||" /\ last # 0
         THEN ShellEval(cmds, o, i + 1, o[i], Append(started, TRUE))
         ELSE ShellEval(cmds, o, i + 1, last, Append(started, FALSE))

\* subprocess.call(cmd, shell=True) of the command line whose simple
\* commands are cmds
ShellRun(line, cmds, o) ==
    IF ShellSyntaxError(line, cmds)
    THEN [started |-> [i \in 1..Len(cmds) |-> FALSE], rc |-> 2]
    ELSE ShellEval(cmds, o, 1, 0, <<>>)

(*************************** resolver inputs *******************************)
Names == {<<"a">>, <<"b">>}

TplChars == {"{", "}", "a", "b"}

Templates == SeqsUpTo(TplChars, MaxTplLen) \cup {Placeholder(n) : n \in Names}

Values == {<<"X">>, <<"M">>, <<"a">>}
          \cup {Placeholder(n) : n \in Names}

\* dicts of at most n entries with distinct keys
Dicts(n) == {d \in SeqsUpTo(Names \X Values, n) :
                \A i, j \in 1..Len(d) : d[i][1] = d[j][1] => i = j}

mainIdle ==
    /\ pc = "idle" /\ config = <<>> /\ args = <<>> /\ cwd = <<>>
    /\ user_variables = <<>> /\ variables = <<>> /\ environment = <<>>
    /\ idx = 0 /\ path = <<>> /\ exitcode = 0 /\ msg = "" /\ executed = <<>>
    /\ examined = <<>> /\ baseVars = <<>> /\ pathVars = <<>>

InitResolve ==
    /\ mainIdle
    /\ rpc = "call"
    /\ rTemplate \in Templates
    /\ rComputed \in Dicts(MaxVars)
    /\ rUser \in Dicts(MaxVars)
    /\ rResult = <<>>

Resolve ==
    /\ rpc = "call"
    /\ rResult' = replace_with_variables(rTemplate, rComputed, rUser)
    /\ rpc' = "returned"
    /\ UNCHANGED <<rTemplate, rComputed, rUser>>
    /\ UNCHANGED mainVars

NextResolve == Resolve

SpecResolve == InitResolve /\ [][NextResolve]_vars

(*************************** command line and configuration ***************)
CurrentDir == <<"/", "x", "/", "y">>

\* argparse defaults of --operating-system and --build-type
get_system_name == <<"f", "e", "d", "o", "r", "a">>

DefaultBuildType == <<"R", "e", "l", "e", "a", "s", "e">>

NoMatchText == "No matching configuration entry found."

\* the raw -v arguments of one command line
VariableArgs ==
    { <<>>,
      << <<"a", "=", " ", "/", "x", " ">> >>,
      << <<"a">> >> }

GlobalNodes ==
    { Node({}, <<>>, <<>>, <<>>, <<>>, <<>>),
      Node({"variables", "environment"}, <<>>,
           << <<<<"a">>, <<"/", "q">>>> >>,
           << <<<<"E">>, <<"{", "b", "t", "}">>>> >>, <<>>, <<>>) }

ProjectNodes ==
    { \* matches a proper prefix of the working directory
      Node({"path", "build", "test"}, <<"/", "x">>, <<>>, <<>>,
           << <<"m">> >>, << <<"t">> >>),
      \* does not match, declares a variable
      Node({"path", "variables", "build"}, <<"/", "q">>,
           << <<<<"a">>, <<"/", "x">>>> >>, <<>>, << <<"m">> >>, <<>>),
      \* the pattern is a variable
      Node({"path", "build"}, <<"{", "a", "}">>, <<>>, <<>>,
           << <<"{", "a", "}">> >>, <<>>),
      \* matches the empty prefix
      Node({"path", "build"}, <<>>, <<>>, <<>>, << <<"m">> >>, <<>>),
      \* no path key
      Node({"build"}, <<>>, <<>>, <<>>, << <<"m">> >>, <<>>),
      \* a regular expression matching the whole directory, no build key
      Node({"path", "test"}, <<"/", ".", "*">>, <<>>, <<>>, <<>>, << <<"t">> >>),
      \* not a regular expression
      Node({"path"}, <<"*", "x">>, <<>>, <<>>, <<>>, <<>>),
      \* home directory, project environment
      Node({"path", "environment", "build"}, <<"~", "/", "y">>, <<>>,
           << <<<<"E">>, <<"{", "o", "s", "}">>>> >>, << <<"m">> >>, <<>>),
      \* empty step lists
      Node({"path", "build", "test"}, <<"/", "x">>, <<>>, <<>>, <<>>, <<>>),
      \* a variable whose template names itself
      Node({"path", "variables", "build", "test"}, <<"/", "x">>,
           << <<<<"a">>, <<"{", "a", "}", "2">>>> >>, <<>>,
           << <<"{", "a", "}">> >>, << <<"{", "a", "}">> >>),
      \* steps that are themselves command lists
      Node({"path", "build", "test"}, <<"/", "x", "*">>, <<>>, <<>>,
           << <<"f">>, <<"m", " ", ";", " ", "t">> >>,
           << <<"m", " ", "|", "|", " ", "t">>, <<"t">> >>) }

ArgSets ==
    [no_build : BOOLEAN, test : BOOLEAN, variable : VariableArgs,
     operating_system : {get_system_name}, build_type : {DefaultBuildType}]

resolveIdle ==
    /\ rpc = "idle" /\ rTemplate = <<>> /\ rComputed = <<>> /\ rUser = <<>>
    /\ rResult = <<>>

Init ==
    /\ resolveIdle
    /\ pc = "start"
    /\ \E g \in GlobalNodes, ps \in SeqsUpTo(ProjectNodes, MaxProjects) :
          config = [keys |-> g.keys, variables |-> g.variables,
                    environment |-> g.environment, projects |-> ps]
    /\ args \in ArgSets
    /\ cwd = CurrentDir
    /\ user_variables = <<>> /\ variables = <<>> /\ environment = <<>>
    /\ idx = 0 /\ path = <<>> /\ exitcode = 0 /\ msg = "" /\ executed = <<>>
    /\ examined = <<>> /\ baseVars = <<>> /\ pathVars = <<>>

(*************************** main ******************************************)
IndexOf(s, c) == CHOOSE i \in 1..Len(s) : s[i] = c /\ \A j \in 1..(i - 1) : s[j] # c

RECURSIVE Strip(_)
\* str.strip()
Strip(s) ==
    IF s = <<>> THEN s
    ELSE IF s[1] = " " THEN Strip(Tail(s))
    ELSE IF s[Len(s)] = " " THEN Strip(SubSeq(s, 1, Len(s) - 1))
    ELSE s

\* v.split('=', 1) has a second element
Splittable(v) == "=" \in Range(v)

RECURSIVE ParseVariables(_, _)
\* user_variables after the first i -v arguments
ParseVariables(vs, i) ==
    IF i = 0 THEN <<>>
    ELSE DictSet(ParseVariables(vs, i - 1),
                 SubSeq(vs[i], 1, IndexOf(vs[i], "=") - 1),
                 Strip(SubSeq(vs[i], IndexOf(vs[i], "=") + 1, Len(vs[i]))))

Finish(r) == pc' = r.pc /\ exitcode' = r.exitcode /\ msg' = r.msg

\* an uncaught exception: traceback, exit status 1
Raise(name) == pc' = "exception" /\ exitcode' = 1 /\ msg' = name

\* main, lines 123-151: arguments, user variables, global scopes
Load ==
    /\ pc = "start"
    /\ IF \E i \in 1..Len(args.variable) : ~Splittable(args.variable[i])
       THEN /\ Raise("IndexError")
            /\ UNCHANGED <<user_variables, variables, environment, idx, baseVars>>
       ELSE LET user == ParseVariables(args.variable, Len(args.variable))
                seed == << <<<<"o", "s">>, args.operating_system>>,
                           <<<<"b", "t">>, args.build_type>> >>
                vs == extract_variables(config, seed, user)
            IN /\ user_variables' = user
               /\ variables' = vs
               /\ baseVars' = vs
               /\ environment' = extract_environment(config, <<>>, vs, user)
               /\ idx' = 1
               /\ pc' = "loop"
               /\ UNCHANGED <<exitcode, msg>>
    /\ UNCHANGED <<config, args, cwd, path, executed, examined, pathVars>>
    /\ UNCHANGED resolveVars

\* main, lines 154-160: one iteration of the loop over the projects
Examine ==
    /\ pc = "loop"
    /\ idx <= Len(config.projects)
    /\ LET project == config.projects[idx]
           project_vars == extract_variables(project, variables, user_variables)
           m == get_path(project, project_vars, user_variables, cwd)
       IN /\ variables' = project_vars
          /\ examined' = Append(examined, [kind |-> m.kind, group |-> m.group,
                                           vars |-> project_vars])
          /\ CASE m.kind = "nopath" ->
                    /\ Finish(error("No path"))
                    /\ UNCHANGED <<idx, path, pathVars>>
               [] m.kind = "regexerror" ->
                    /\ Raise("re.error")
                    /\ UNCHANGED <<idx, path, pathVars>>
               [] m.kind = "nomatch" \/ (m.kind = "match" /\ m.group = <<>>) ->
                    /\ idx' = idx + 1
                    /\ UNCHANGED <<pc, exitcode, msg, path, pathVars>>
               [] OTHER ->
                    /\ path' = m.group
                    /\ pathVars' = project_vars
                    /\ pc' = "build"
                    /\ UNCHANGED <<idx, exitcode, msg>>
    /\ UNCHANGED <<config, args, cwd, user_variables, environment, executed, baseVars>>
    /\ UNCHANGED resolveVars

\* main, line 169
NoMatch ==
    /\ pc = "loop"
    /\ idx > Len(config.projects)
    /\ Finish(error(NoMatchText))
    /\ UNCHANGED <<config, args, cwd, user_variables, variables, environment,
                   idx, path, executed, examined, baseVars, pathVars>>
    /\ UNCHANGED resolveVars

\* build() and test(): the phase named key of the selected project; next
\* is the position of main after a successful phase
Phase(key, steps, next) ==
    IF key \notin config.projects[idx].keys
    THEN /\ pc' = next
         /\ UNCHANGED <<variables, environment, executed, exitcode, msg>>
    ELSE \E vs \in {extract_variables(config.projects[idx], variables, user_variables)} :
         \E env \in {extract_environment(config.projects[idx], environment, vs,
                                         user_variables)} :
         \E cmd \in {PhaseCmd(steps, Len(steps), vs, user_variables)} :
         \E line \in {Join(cmd)} :
         \E cmds \in {ShellParse(line)} :
         \E o \in [1..Len(cmds) -> {0, 1}] :
         \E run \in {ShellRun(line, cmds, o)} :
            /\ variables' = vs
            /\ environment' = env
            /\ executed' = Append(executed,
                   [phase |-> key, proj |-> idx, cmd |-> cmd, cwd |-> path,
                    env |-> env, vars |-> vs, parsed |-> cmds,
                    started |-> run.started,
                    status |-> [i \in 1..Len(cmds) |->
                                   IF run.started[i] THEN o[i] ELSE 0],
                    rc |-> run.rc])
            /\ IF execute_failed(run.rc)
               THEN Finish(error("Execution failed"))
               ELSE pc' = next /\ UNCHANGED <<exitcode, msg>>

\* main, lines 162-163
Build ==
    /\ pc = "build"
    /\ IF args.no_build
       THEN /\ pc' = "test"
            /\ UNCHANGED <<variables, environment, executed, exitcode, msg>>
       ELSE Phase("build", config.projects[idx].build, "test")
    /\ UNCHANGED <<config, args, cwd, user_variables, idx, path, examined,
                   baseVars, pathVars>>
    /\ UNCHANGED resolveVars

\* main, lines 165-168
Test ==
    /\ pc = "test"
    /\ IF ~args.test
       THEN /\ pc' = "done"
            /\ UNCHANGED <<variables, environment, executed, exitcode, msg>>
       ELSE Phase("test", config.projects[idx].test, "done")
    /\ UNCHANGED <<config, args, cwd, user_variables, idx, path, examined,
                   baseVars, pathVars>>
    /\ UNCHANGED resolveVars

Next == Load \/ Examine \/ NoMatch \/ Build \/ Test

Spec == Init /\ [][Next]_vars

(*************************** properties ************************************)
Matched(i) == examined[i].kind = "match"

\* the project main selected, 0 when none was
Selected ==
    IF pc \in {"build", "test", "done"} \/ (pc = "error" /\ msg = "Execution failed")
    THEN idx ELSE 0

StepsOf(e) ==
    IF e.phase = "build" THEN config.projects[e.proj].build
    ELSE config.projects[e.proj].test

\* C1: the first project whose path pattern matches the working directory
\* is the only one whose steps are handed to execute_command, and no later
\* project is examined after it
C1_FirstMatchOnly ==
    \A i \in 1..Len(examined) :
        Matched(i) =>
            /\ Len(examined) = i
            /\ \A k \in 1..Len(executed) : executed[k].proj = i

\* C2: a build pipeline that returns a non-zero exit code ends the run with
\* a non-zero exit status, and the test phase is never started
C2_BuildFailureEndsRun ==
    \A k \in 1..Len(executed) :
        (executed[k].phase = "build" /\ executed[k].rc # 0) =>
            /\ pc = "error"
            /\ exitcode # 0
            /\ k = Len(executed)
            /\ \A j \in 1..Len(executed) : executed[j].phase # "test"

C2_Witness ==
    /\ pc = "error"
    /\ args.test
    /\ Len(executed) = 1
    /\ executed[1].phase = "build"
    /\ executed[1].rc # 0
    /\ "test" \in config.projects[idx].keys
    /\ config.projects[idx].test # <<>>

\* C3: when every project was examined and no pattern matched, the run ends
\* with the no-match message and a non-zero status, nothing was executed
\* (for a command line whose -v arguments are all of the form KEY=VALUE)
C3_NoMatchIsFatal ==
    (/\ pc \notin {"start", "loop"}
     /\ \A i \in 1..Len(args.variable) : Splittable(args.variable[i])
     /\ Len(examined) = Len(config.projects)
     /\ \A i \in 1..Len(examined) : examined[i].kind = "nomatch")
    => (/\ pc = "error"
        /\ msg = NoMatchText
        /\ exitcode # 0
        /\ executed = <<>>)

C3_Witness ==
    /\ pc = "error"
    /\ msg = NoMatchText
    /\ Len(config.projects) = 2
    /\ Len(examined) = 2
    /\ \A i \in 1..2 : examined[i].kind = "nomatch"
    /\ executed = <<>>

\* C5: the map a project's path is resolved against is the global map
\* extended by that project's own variables only
C5_ScopesRebuiltPerProject ==
    \A i \in 1..Len(examined) :
        examined[i].vars =
            extract_variables(config.projects[i], baseVars, user_variables)

\* C6: a project is skipped exactly when its pattern does not match the
\* start of the working directory; a match of any length selects it and
\* the matched prefix is the path
C6_SkippedIffNoMatch ==
    \A i \in 1..Len(examined) :
        /\ (idx > i) <=> (examined[i].kind = "nomatch")
        /\ Matched(i) => (Selected = i /\ path = examined[i].group)

\* C7: a phase whose step list is missing or empty never reaches
\* execute_command
C7_EmptyPhaseIsNoOp ==
    \A k \in 1..Len(executed) :
        /\ executed[k].phase \in config.projects[executed[k].proj].keys
        /\ StepsOf(executed[k]) # <<>>

RECURSIVE Offset(_, _)
\* number of characters of ' '.join(cmd) before element k
Offset(cmd, k) == IF k = 1 THEN 0 ELSE Offset(cmd, k - 1) + Len(cmd[k - 1]) + 1

\* the element of the list cmd that holds position pos of ' '.join(cmd)
ElementAt(cmd, pos) ==
    CHOOSE k \in 1..Len(cmd) : Offset(cmd, k) < pos /\ pos <= Offset(cmd, k) + Len(cmd[k])

CommandsOf(e) == {c \in 1..Len(e.parsed) : e.parsed[c].start # 0}

\* C9: once a banner or a step of a pipeline exited non-zero, no later
\* banner or step starts and the pipeline's exit code is non-zero
C9_FailFastChain ==
    \A k \in 1..Len(executed) :
        \A c1 \in CommandsOf(executed[k]) :
            LET e == executed[k]
                el == ElementAt(e.cmd, e.parsed[c1].start)
            IN (/\ e.started[c1]
                /\ e.status[c1] # 0
                /\ \A c \in CommandsOf(e) :
                      ElementAt(e.cmd, e.parsed[c].start) = el => c = c1)
               => /\ e.rc # 0
                  /\ \A c2 \in CommandsOf(e) :
                        ElementAt(e.cmd, e.parsed[c2].start) > el => ~e.started[c2]

\* C10: the steps of the selected project are substituted with the map its
\* path pattern was resolved against
C10_SameMapForPathAndSteps ==
    \A k \in 1..Len(executed) : executed[k].vars = pathVars

(*************************** resolver properties ***************************)
RECURSIVE OccCount(_, _, _)
\* number of leftmost non-overlapping occurrences of p in s from i on
OccCount(s, i, p) ==
    IF i + Len(p) - 1 > Len(s) THEN 0
    ELSE IF StartsWith(s, i, p) THEN 1 + OccCount(s, i + Len(p), p)
    ELSE OccCount(s, i + 1, p)

CountChar(s, c) == Cardinality({i \in 1..Len(s) : s[i] = c})

BraceFree(s) == "{" \notin Range(s) /\ "}" \notin Range(s)

\* C4 as stated: text inserted for one variable is not expanded by a later
\* variable; resolving {a} with computed {a: "{b}", b: ...} yields "{b}"
C4_NoReexpansion ==
    (/\ rpc = "returned"
     /\ rUser = <<>>
     /\ Len(rComputed) = 2
     /\ rTemplate = Placeholder(rComputed[1][1])
     /\ rComputed[1][2] = Placeholder(rComputed[2][1]))
    => rResult = rComputed[1][2]

\* C4 amended: every variable is applied once, in order; inserted text is
\* expanded by the variables applied later and by no other
C4_ExpandedByLaterOnly ==
    (rpc = "returned" /\ Len(rComputed) = 2
     /\ \A i \in 1..Len(rUser) : Placeholder(rUser[i][1]) # rTemplate)
    => /\ (/\ rTemplate = Placeholder(rComputed[1][1])
           /\ rComputed[1][2] = Placeholder(rComputed[2][1]))
          => rResult = rComputed[2][2]
       /\ (/\ rTemplate = Placeholder(rComputed[2][1])
           /\ rComputed[2][2] = Placeholder(rComputed[1][1]))
          => rResult = rComputed[2][2]
       /\ \A i \in 1..2 :
             (/\ rTemplate = Placeholder(rComputed[i][1])
              /\ rComputed[i][2] = rTemplate)
             => rResult = rTemplate

C4_Witness ==
    /\ rpc = "returned"
    /\ rUser = <<>>
    /\ rComputed = << <<<<"a">>, <<"{", "b", "}">>>>, <<<<"b">>, <<"X">>>> >>
    /\ rTemplate = <<"{", "a", "}">>
    /\ rResult = <<"X">>

\* C8: a key defined in both maps is replaced by the user value: a user
\* value that is a mark occurring nowhere else appears in the result once
\* for every {k} of the template, and resolving "{k}" alone yields a
\* brace-free user value
C8_UserPrecedence ==
    rpc = "returned" =>
        \A k \in DictKeys(rUser) \cap DictKeys(rComputed) :
            /\ (/\ DictGet(rUser, k) = <<"M">>
                /\ \A i \in 1..Len(rComputed) : "M" \notin Range(rComputed[i][2])
                /\ \A i \in 1..Len(rUser) :
                      rUser[i][1] # k => "M" \notin Range(rUser[i][2]))
               => CountChar(rResult, "M") >= OccCount(rTemplate, 1, Placeholder(k))
            /\ (rTemplate = Placeholder(k) /\ BraceFree(DictGet(rUser, k)))
               => rResult = DictGet(rUser, k)

C8_Witness ==
    /\ rpc = "returned"
    /\ rTemplate = <<"{", "a", "}">>
    /\ <<"a">> \in DictKeys(rUser) \cap DictKeys(rComputed)
    /\ DictGet(rUser, <<"a">>) = <<"M">>
    /\ DictGet(rComputed, <<"a">>) = <<"X">>
    /\ rResult = <<"M">>

====
